---- MODULE Spec2Model ----
(***************************************************************************)
(* A model of minidl's Library (src/src/lib.rs): load, sym, sym_opt,       *)
(* sym_by_ordinal, sym_opt_by_ordinal, has_sym and the unload operation,   *)
(* over a model of the platform loader (dlopen/dlsym/dlerror/dlclose on    *)
(* Unix, LoadLibraryW/GetProcAddress/FreeLibrary/GetLastError on Windows). *)
(*                                                                         *)
(* Text is a sequence of one-character strings, so that "contains" is a    *)
(* real substring test and formatting is a real concatenation.             *)
(***************************************************************************)
EXTENDS Integers, Sequences, FiniteSets, TLC

\* ------------------------------------------------------------------------
\* Bounds
\* ------------------------------------------------------------------------

\* longest symbol name (terminator included) the client passes
MaxNameLen == 3

\* longest path the client passes
MaxPathLen == 2

\* highest reference count the platform loader reaches for one library
MaxRef == 1

\* ------------------------------------------------------------------------
\* Characters and text
\* ------------------------------------------------------------------------

\* the '\0' character of lib.rs:164-165 and of the terminators of lib.rs:35,41
NUL == "NUL"

\* a byte (Unix) or code unit (Windows) that is not valid Unicode text
BAD == "xFF"

\* U+FFFD, what a lossy conversion writes for an invalid byte or unit
REPLACEMENT == "U+FFFD"

QUOTE == "\""

BACKSLASH == "\\"

NameChars == {"x", QUOTE, NUL}

PathChars == {"z", BAD}

SeqsUpTo(S, n) == UNION {[1..k -> S] : k \in 0..n}

Names == SeqsUpTo(NameChars, MaxNameLen)

Paths == SeqsUpTo(PathChars, MaxPathLen)

\* str::contains, as the tests use it (tests/libc.rs:38, tests/kernel32.rs:39)
Contains(hay, needle) ==
    \E i \in 0..(Len(hay) - Len(needle)) :
        SubSeq(hay, i + 1, i + Len(needle)) = needle

\* str::ends_with(ch)
ends_with(s, ch) == Len(s) > 0 /\ s[Len(s)] = ch

\* &name[..name.len()-1]
StripLast(s) == SubSeq(s, 1, Len(s) - 1)

\* what a C API reads from a pointer to these bytes: everything before the
\* first NUL (the whole buffer when it holds no NUL at all)
CStr(buf) ==
    IF \E i \in 1..Len(buf) : buf[i] = NUL
    THEN LET first == CHOOSE i \in 1..Len(buf) :
                          /\ buf[i] = NUL
                          /\ \A j \in 1..(i - 1) : buf[j] # NUL
         IN  SubSeq(buf, 1, first - 1)
    ELSE buf

\* CStr::to_string_lossy and Path::display: invalid bytes become U+FFFD
to_string_lossy(bytes) ==
    [i \in 1..Len(bytes) |-> IF bytes[i] = BAD THEN REPLACEMENT ELSE bytes[i]]

display(path) == to_string_lossy(path)

\* one character of <str as Debug>::fmt
EscapeDebugChar(c) ==
    IF c = QUOTE THEN <<BACKSLASH, QUOTE>>
    ELSE IF c = BACKSLASH THEN <<BACKSLASH, BACKSLASH>>
    ELSE IF c = NUL THEN <<BACKSLASH, "0">>
    ELSE <<c>>

RECURSIVE EscapeDebug(_)
EscapeDebug(s) ==
    IF s = <<>> THEN <<>> ELSE EscapeDebugChar(Head(s)) \o EscapeDebug(Tail(s))

\* format!("{:?}", s) for a str
FormatDebug(s) == <<QUOTE>> \o EscapeDebug(s) \o <<QUOTE>>

Digits == <<"0", "1", "2", "3", "4", "5", "6", "7", "8", "9">>

\* format!("{}", n) for an unsigned integer
RECURSIVE Decimal(_)
Decimal(n) ==
    IF n < 10 THEN <<Digits[n + 1]>>
    ELSE Decimal(n \div 10) \o <<Digits[(n % 10) + 1]>>

\* ------------------------------------------------------------------------
\* Message text of lib.rs
\* ------------------------------------------------------------------------

UnableToLoad ==
    << "U", "n", "a", "b", "l", "e", " ", "t", "o", " ", "l", "o", "a", "d", " " >>

ColonNotFound ==
    << ":", " ", "N", "o", "t", "F", "o", "u", "n", "d" >>

BadExeLead ==
    << ":", " ", "E", "R", "R", "O", "R", "_", "B", "A", "D", "_", "E", "X", "E",
       "_", "F", "O", "R", "M", "A", "T", " ", "(", "l", "i", "k", "e", "l", "y",
       " ", "t", "r", "i", "e", "d", " ", "t", "o", " ", "l", "o", "a", "d", " ",
       "a", " " >>

BadExeMid ==
    << "-", "b", "i", "t", " ", "D", "L", "L", " ", "i", "n", "t", "o", " ",
       "t", "h", "i", "s", " " >>

BadExeTail ==
    << "-", "b", "i", "t", " ", "p", "r", "o", "c", "e", "s", "s", ")" >>

SymbolLead ==
    << "S", "y", "m", "b", "o", "l", " " >>

SymbolAtLead ==
    << "S", "y", "m", "b", "o", "l", " ", "@" >>

MissingTail ==
    << " ", "m", "i", "s", "s", "i", "n", "g", " ", "f", "r", "o", "m", " ",
       "l", "i", "b", "r", "a", "r", "y" >>

\* ------------------------------------------------------------------------
\* Values: pointers, results, errors
\* ------------------------------------------------------------------------

\* the null pointer
NULL == 0

Ok(v) == [tag |-> "Ok", val |-> v]

Err(e) == [tag |-> "Err", val |-> e]

Some(v) == [tag |-> "Some", val |-> v]

None == [tag |-> "None", val |-> NULL]

Bool(b) == [tag |-> "Bool", val |-> b]

Unit == "()"

\* a panic that unwinds out of the operation, with its diagnostic
Panic(diag) == [tag |-> "Panic", val |-> diag]

NoRet == [tag |-> "NoRet", val |-> NULL]

\* raw_os_error() of an error that is not an OS error
NoCode == -1

\* io::Error::new(kind, msg)
CustomError(kind, msg) == [kind |-> kind, code |-> NoCode, msg |-> msg]

\* io::Error::last_os_error() / from_raw_os_error(code)
OsError(code) == [kind |-> "Os", code |-> code, msg |-> <<>>]

\* FormatMessageW's text for an OS error code
SysMessage(code) ==
    IF code = 0
    THEN << "T", "h", "e", " ", "o", "p", "e", "r", "a", "t", "i", "o", "n", " ",
            "c", "o", "m", "p", "l", "e", "t", "e", "d", " ", "s", "u", "c", "c",
            "e", "s", "s", "f", "u", "l", "l", "y", "." >>
    ELSE IF code = 5
    THEN << "A", "c", "c", "e", "s", "s", " ", "i", "s", " ", "d", "e", "n", "i",
            "e", "d", "." >>
    ELSE IF code = 6
    THEN << "T", "h", "e", " ", "h", "a", "n", "d", "l", "e", " ", "i", "s", " ",
            "i", "n", "v", "a", "l", "i", "d", "." >>
    ELSE << "O", "S", " ", "E", "r", "r", "o", "r" >>

OsErrorLead ==
    << " ", "(", "o", "s", " ", "e", "r", "r", "o", "r", " " >>

\* format!("{}", e): a custom error shows its message, an OS error the
\* system's text for its code and the code
Display(e) ==
    IF e.kind = "Os"
    THEN SysMessage(e.code) \o OsErrorLead \o Decimal(e.code) \o <<")">>
    ELSE e.msg

\* ------------------------------------------------------------------------
\* Platform text: what dlerror() and the OS say
\* ------------------------------------------------------------------------

CannotOpenTail ==
    << ":", " ", "c", "a", "n", "n", "o", "t", " ", "o", "p", "e", "n", " ",
       "s", "h", "a", "r", "e", "d", " ", "o", "b", "j", "e", "c", "t", " ",
       "f", "i", "l", "e" >>

NotSupportedMsg ==
    << "D", "y", "n", "a", "m", "i", "c", " ", "l", "o", "a", "d", "i", "n", "g",
       " ", "n", "o", "t", " ", "s", "u", "p", "p", "o", "r", "t", "e", "d" >>

UndefinedSymbolMsg ==
    << "u", "n", "d", "e", "f", "i", "n", "e", "d", " ", "s", "y", "m", "b", "o",
       "l" >>

NotOpenMsg ==
    << "s", "h", "a", "r", "e", "d", " ", "o", "b", "j", "e", "c", "t", " ",
       "n", "o", "t", " ", "o", "p", "e", "n" >>

\* the value of the per-thread dlerror() slot: a null pointer or a C string
DlNull == [null |-> TRUE, str |-> <<>>]

DlStr(s) == [null |-> FALSE, str |-> s]

\* the pointer dlerror() returns for a slot value (1: some non-null address)
DlPtr(slot) == IF slot.null THEN NULL ELSE 1

\* ------------------------------------------------------------------------
\* Build configuration and program constants
\* ------------------------------------------------------------------------

OSes == {"unix", "windows"}

Archs == {"x86", "x86_64", "aarch64"}

\* target_pointer_width of each target_arch
PointerWidth(arch) == IF arch = "x86" THEN 32 ELSE 64

ERROR_BAD_EXE_FORMAT == 193

ERROR_MOD_NOT_FOUND == 126

RTLD_LAZY == 1

\* the "resolve immediately" binding mode of dlfcn.h
RTLD_NOW == 2

\* the largest u16, the type of an ordinal
U16Max == 65535

Ordinals == {0, 1, 10, U16Max}

\* size_of::<T>() of the result types the client asks for
TSizes == {4, 8}

Threads == {"t1", "t2"}

\* the thread of the single-threaded client
Main == "t1"

NameFns == {"sym", "sym_opt", "has_sym"}

OrdFns == {"sym_by_ordinal", "sym_opt_by_ordinal"}

\* ------------------------------------------------------------------------
\* The platform loader's world: files, exports
\* ------------------------------------------------------------------------

LibBases == {1, 2}

SymAddrs == {11, 22}

\* the module the loader maps for a file name, NULL when it cannot load it
LibOf(cpath) ==
    IF cpath = <<"z">> THEN 1
    ELSE IF cpath = <<"z", "z">> THEN 2
    ELSE NULL

\* the export table by name of each loaded module
Exports(module, cname) ==
    IF module = 1 /\ cname = <<"x">> THEN 11
    ELSE IF module = 2 /\ cname = <<QUOTE>> THEN 22
    ELSE NULL

\* the export table by ordinal (Windows)
OrdExports(module, ordinal) ==
    IF module = 1 /\ ordinal = 1 THEN 11 ELSE NULL

\* OS error codes LoadLibraryW leaves in GetLastError() when it fails
WinLoadErrors == {0, 5, ERROR_MOD_NOT_FOUND, ERROR_BAD_EXE_FORMAT}

ERROR_PROC_NOT_FOUND == 127

ERROR_INVALID_HANDLE == 6

VARIABLES
    os,           \* cfg(unix) / cfg(windows) of the build
    target_arch,  \* cfg(target_arch) of the build
    h,            \* each thread's Library variable: None or Some(address)
    refs,         \* the loader's reference count of each module
    pc,           \* each thread's position
    op,           \* the call each thread is in: function and arguments
    ret,          \* what the call returned (or the panic it raised)
    plog,         \* the platform calls the current call has issued, in order
    dlerr,        \* Unix: each thread's dlerror() slot
    lasterr,      \* Windows: each thread's GetLastError() value
    kept          \* the result of an earlier sym or sym_opt the client holds on to

vars == <<os, target_arch, h, refs, pc, op, ret, plog, dlerr, lasterr, kept>>

\* size_of::<*mut c_void>()
PtrSize == PointerWidth(target_arch) \div 8

NoOp == [fn |-> "none", self |-> NULL, str |-> <<>>, ord |-> 0, tsize |-> 0]

\* the client holds on to no result
NoKept ==
    [set |-> FALSE, self |-> NULL, str |-> <<>>, addr |-> NULL, loaded |-> FALSE]

PCall(api, hnd, str, num, res) ==
    [api |-> api, h |-> hnd, str |-> str, num |-> num, res |-> res]

Init ==
    /\ os \in OSes
    /\ target_arch \in Archs
    /\ h = [t \in Threads |-> None]
    /\ refs = [b \in LibBases |-> 0]
    /\ pc = [t \in Threads |-> "idle"]
    /\ op = [t \in Threads |-> NoOp]
    /\ ret = [t \in Threads |-> NoRet]
    /\ plog = [t \in Threads |-> <<>>]
    /\ dlerr = [t \in Threads |-> DlNull]
    /\ lasterr = [t \in Threads |-> 0]
    /\ kept = NoKept

\* ------------------------------------------------------------------------
\* Platform calls: the outcomes each can have
\* ------------------------------------------------------------------------

\* dlerror(): returns what the thread's slot holds and empties the slot
dlerror(slot) == [res |-> slot, err |-> DlNull]

\* what the slot can hold after a dlopen that failed on cpath: the loader's
\* message naming the file, a message that names nothing, or what it held
\* before (the loader recorded no error)
DlopenErrors(cpath, slot) ==
    {DlStr(cpath \o CannotOpenTail), DlStr(NotSupportedMsg), slot}

\* dlopen(filename, flags): the handle, and the thread's dlerror() slot after
dlopen(filename, flags, slot) ==
    LET cpath == CStr(filename) IN
    IF LibOf(cpath) # NULL
    THEN {[res |-> LibOf(cpath), err |-> slot]}
    ELSE {[res |-> NULL, err |-> e] : e \in DlopenErrors(cpath, slot)}

\* LoadLibraryW(lpFileName): the handle, and GetLastError() after
LoadLibraryW(filename, code) ==
    LET cpath == CStr(filename) IN
    IF LibOf(cpath) # NULL
    THEN {[res |-> LibOf(cpath), err |-> code]}
    ELSE {[res |-> NULL, err |-> e] : e \in WinLoadErrors}

\* dlsym(handle, symbol). A handle whose module is unloaded dangles: the call
\* may fail or return any address.
dlsym(module, symbol, slot) ==
    LET cname == CStr(symbol)
        fail == [res |-> NULL, err |-> DlStr(UndefinedSymbolMsg)]
    IN  IF refs[module] > 0
        THEN IF Exports(module, cname) # NULL
             THEN {[res |-> Exports(module, cname), err |-> slot]}
             ELSE {fail}
        ELSE {fail} \cup {[res |-> a, err |-> slot] : a \in SymAddrs}

\* GetProcAddress(hModule, lpProcName) with a name
GetProcAddress(module, symbol, code) ==
    LET cname == CStr(symbol)
        fail == [res |-> NULL, err |-> ERROR_PROC_NOT_FOUND]
    IN  IF refs[module] > 0
        THEN IF Exports(module, cname) # NULL
             THEN {[res |-> Exports(module, cname), err |-> code]}
             ELSE {fail}
        ELSE {fail} \cup {[res |-> a, err |-> code] : a \in SymAddrs}

\* GetProcAddress(hModule, MAKEINTRESOURCE(ordinal))
GetProcAddressOrdinal(module, ordinal, code) ==
    LET fail == [res |-> NULL, err |-> ERROR_PROC_NOT_FOUND]
    IN  IF refs[module] > 0
        THEN IF OrdExports(module, ordinal) # NULL
             THEN {[res |-> OrdExports(module, ordinal), err |-> code]}
             ELSE {fail}
        ELSE {fail} \cup {[res |-> a, err |-> code] : a \in SymAddrs}

\* dlclose(handle): 0 and one reference less on a loaded module; on a module
\* that is not loaded the platform rejects the call (non-zero, dlerror set) or
\* does nothing and reports success
dlclose(module, slot) ==
    IF refs[module] > 0
    THEN {[rc |-> 0, err |-> slot, drop |-> 1]}
    ELSE {[rc |-> r, err |-> DlStr(NotOpenMsg), drop |-> 0] : r \in {-1, 1}}
         \cup {[rc |-> 0, err |-> slot, drop |-> 0]}

\* FreeLibrary(hModule): non-zero and one reference less on a loaded module,
\* 0 with the last error set on a module that is not loaded
FreeLibrary(module, code) ==
    IF refs[module] > 0
    THEN {[rc |-> 1, err |-> code, drop |-> 1]}
    ELSE {[rc |-> 0, err |-> e, drop |-> 0] :
              e \in {ERROR_INVALID_HANDLE, ERROR_MOD_NOT_FOUND}}

\* ------------------------------------------------------------------------
\* Library::load
\* ------------------------------------------------------------------------

\* the file name handed to the loader: the path's bytes (Unix) or UTF-16
\* units (Windows) followed by a 0
Filename(path) == path \o <<NUL>>

\* the flags load passes to dlopen
DlopenFlags == RTLD_LAZY

\* dlerror_string_lossy() given what dlerror() returned
dlerror_string_lossy(e) ==
    IF e.null THEN <<>> ELSE to_string_lossy(e.str)

\* the "this" of the ERROR_BAD_EXE_FORMAT message
ThisBits == IF target_arch = "x86_64" THEN <<"6", "4">> ELSE <<"3", "2">>

\* the "that" of the ERROR_BAD_EXE_FORMAT message
ThatBits == IF target_arch = "x86_64" THEN <<"3", "2">> ELSE <<"6", "4">>

\* LoadErrorWindows with the path left out of the NotFound message
LoadErrorWindowsNoPath(path, code) ==
    IF code = ERROR_BAD_EXE_FORMAT
    THEN CustomError("Other",
             UnableToLoad \o display(path) \o BadExeLead \o ThatBits
                 \o BadExeMid \o ThisBits \o BadExeTail)
    ELSE IF code = ERROR_MOD_NOT_FOUND
    THEN CustomError("NotFound", UnableToLoad \o ColonNotFound)
    ELSE OsError(code)

\* LoadErrorWindows with every other OS error wrapped in a new error, which
\* loses its raw code
LoadErrorWindowsWrapped(path, code) ==
    IF code = ERROR_BAD_EXE_FORMAT
    THEN CustomError("Other",
             UnableToLoad \o display(path) \o BadExeLead \o ThatBits
                 \o BadExeMid \o ThisBits \o BadExeTail)
    ELSE IF code = ERROR_MOD_NOT_FOUND
    THEN CustomError("NotFound", UnableToLoad \o display(path) \o ColonNotFound)
    ELSE CustomError("Other", SysMessage(code))

\* the error load returns on Windows when LoadLibraryW returned null
LoadErrorWindows(path, code) ==
    IF code = ERROR_BAD_EXE_FORMAT
    THEN CustomError("Other",
             UnableToLoad \o display(path) \o BadExeLead \o ThatBits
                 \o BadExeMid \o ThisBits \o BadExeTail)
    ELSE IF code = ERROR_MOD_NOT_FOUND
    THEN CustomError("NotFound", UnableToLoad \o display(path) \o ColonNotFound)
    ELSE OsError(code)

\* the error load returns on Unix when dlopen returned null
LoadErrorUnix(e) == CustomError("Other", dlerror_string_lossy(e))

\* LoadResult deciding by the error the platform reported, not by the handle
LoadResultByError(handle, error) ==
    IF handle # NULL \/ (error.msg = <<>> /\ error.code \in {NoCode, 0})
    THEN Ok(handle)
    ELSE Err(error)

\* if let Some(handle) = NonNull::new(handle) { Ok(Self(handle)) } else { Err }
LoadResult(handle, error) ==
    IF handle # NULL THEN Ok(handle) ELSE Err(error)

\* the modules that loads in flight on other threads are about to reference
InFlightLoads(t, module) ==
    Cardinality({u \in Threads \ {t} :
                    /\ pc[u] = "load"
                    /\ LibOf(CStr(Filename(op[u].str))) = module})

\* a thread calls Library::load(path)
LoadCall(t, path) ==
    /\ pc[t] = "idle"
    /\ LET module == LibOf(CStr(Filename(path))) IN
           module # NULL => refs[module] + InFlightLoads(t, module) < MaxRef
    /\ pc' = [pc EXCEPT ![t] = "load"]
    /\ op' = [op EXCEPT ![t] = [NoOp EXCEPT !.fn = "load", !.str = path]]
    /\ ret' = [ret EXCEPT ![t] = NoRet]
    /\ plog' = [plog EXCEPT ![t] = <<>>]
    /\ UNCHANGED <<kept, os, target_arch, h, refs, dlerr, lasterr>>

\* load_clear left out: the slot keeps what it holds
load_clear_skipped(slot) == [res |-> DlNull, err |-> slot]

\* let _ = unsafe { dlerror() }; // clear error code
load_clear(slot) == dlerror(slot)

\* the body of load under cfg(unix)
LoadUnix(t) ==
    /\ pc[t] = "load"
    /\ os = "unix"
    /\ LET filename == Filename(op[t].str)
           clear == load_clear(dlerr[t])
       IN  \E out \in dlopen(filename, DlopenFlags, clear.err) :
               LET read == dlerror(out.err)
                   cleared == PCall("dlerror", NULL, clear.res.str, 0, DlPtr(clear.res))
                   opened == PCall("dlopen", NULL, filename, DlopenFlags, out.res)
                   fetched == PCall("dlerror", NULL, read.res.str, 0, DlPtr(read.res))
               IN  /\ ret' = [ret EXCEPT ![t] =
                                  LoadResult(out.res, LoadErrorUnix(read.res))]
                   /\ plog' = [plog EXCEPT ![t] =
                                  IF out.res # NULL THEN <<cleared, opened>>
                                  ELSE <<cleared, opened, fetched>>]
                   /\ dlerr' = [dlerr EXCEPT ![t] =
                                  IF out.res # NULL THEN out.err ELSE read.err]
                   /\ refs' = IF out.res # NULL
                              THEN [refs EXCEPT ![out.res] = @ + 1]
                              ELSE refs
    /\ pc' = [pc EXCEPT ![t] = "done"]
    /\ UNCHANGED <<kept, os, target_arch, h, op, lasterr>>

\* the body of load under cfg(windows)
LoadWindows(t) ==
    /\ pc[t] = "load"
    /\ os = "windows"
    /\ LET filename == Filename(op[t].str)
       IN  \E out \in LoadLibraryW(filename, lasterr[t]) :
               LET opened == PCall("LoadLibraryW", NULL, filename, 0, out.res)
                   read == PCall("GetLastError", NULL, <<>>, out.err, NULL)
               IN  /\ ret' = [ret EXCEPT ![t] =
                                  LoadResult(out.res,
                                             LoadErrorWindows(op[t].str, out.err))]
                   /\ plog' = [plog EXCEPT ![t] =
                                  IF out.res # NULL THEN <<opened>>
                                  ELSE <<opened, read>>]
                   /\ lasterr' = [lasterr EXCEPT ![t] = out.err]
                   /\ refs' = IF out.res # NULL
                              THEN [refs EXCEPT ![out.res] = @ + 1]
                              ELSE refs
    /\ pc' = [pc EXCEPT ![t] = "done"]
    /\ UNCHANGED <<kept, os, target_arch, h, op, dlerr>>

\* Return with the unload consuming the value: a Library that was unloaded
\* successfully is gone
ReturnDropsClosed(t) ==
    /\ pc[t] \in {"done", "panicked"}
    /\ h' = [h EXCEPT ![t] =
                IF op[t].fn = "load" /\ ret[t].tag = "Ok" THEN Some(ret[t].val)
                ELSE IF op[t].fn = "close" /\ ret[t].tag = "Ok" THEN None
                ELSE @]
    /\ pc' = [pc EXCEPT ![t] = "idle"]
    /\ op' = [op EXCEPT ![t] = NoOp]
    /\ ret' = [ret EXCEPT ![t] = NoRet]
    /\ plog' = [plog EXCEPT ![t] = <<>>]
    /\ UNCHANGED <<kept, os, target_arch, refs, dlerr, lasterr>>

\* the call is over: the client keeps a Library that load returned, and a
\* panic has unwound to whoever catches it
Return(t) ==
    /\ pc[t] \in {"done", "panicked"}
    /\ h' = [h EXCEPT ![t] =
                IF op[t].fn = "load" /\ ret[t].tag = "Ok"
                THEN Some(ret[t].val) ELSE @]
    /\ pc' = [pc EXCEPT ![t] = "idle"]
    /\ op' = [op EXCEPT ![t] = NoOp]
    /\ ret' = [ret EXCEPT ![t] = NoRet]
    /\ plog' = [plog EXCEPT ![t] = <<>>]
    /\ UNCHANGED <<kept, os, target_arch, refs, dlerr, lasterr>>

\* the address a result of sym or sym_opt carries, NULL when not found
Address(result) ==
    IF result.tag \in {"Ok", "Some"} THEN result.val ELSE NULL

\* the call to sym or sym_opt is over and the client holds on to what it
\* returned, with the handle and the name it asked for
Keep(t) ==
    /\ pc[t] = "done"
    /\ op[t].fn \in {"sym", "sym_opt"}
    /\ kept' = [set |-> TRUE, self |-> op[t].self, str |-> op[t].str,
                addr |-> Address(ret[t]), loaded |-> refs[op[t].self] > 0]
    /\ pc' = [pc EXCEPT ![t] = "idle"]
    /\ op' = [op EXCEPT ![t] = NoOp]
    /\ ret' = [ret EXCEPT ![t] = NoRet]
    /\ plog' = [plog EXCEPT ![t] = <<>>]
    /\ UNCHANGED <<os, target_arch, h, refs, dlerr, lasterr>>

\* Library is Copy, Send and Sync: a thread takes a copy of another's value
Copy(t, u) ==
    /\ pc[t] = "idle"
    /\ t # u
    /\ h[u] # None
    /\ h[t] # h[u]
    /\ h' = [h EXCEPT ![t] = h[u]]
    /\ UNCHANGED <<kept, os, target_arch, refs, pc, op, ret, plog, dlerr, lasterr>>

\* ------------------------------------------------------------------------
\* sym, sym_opt, has_sym
\* ------------------------------------------------------------------------

Passed == "ok"

NotPointerSized == "symbol result is not pointer sized!"

MustEndWithNul == "symbol name must end with '\\0'"

MustNotContainNul ==
    "symbol name mustn't contain '\\0's, except to terminate the string"

\* sym_opt_asserts without the check for interior '\0's
sym_opt_asserts_no_interior(tsize, name) ==
    IF tsize # PtrSize THEN NotPointerSized
    ELSE IF ~ends_with(name, NUL) THEN MustEndWithNul
    ELSE Passed

\* the three assertions at the head of sym_opt, in order: the diagnostic of
\* the first that fails, or Passed
sym_opt_asserts(tsize, name) ==
    IF tsize # PtrSize THEN NotPointerSized
    ELSE IF ~ends_with(name, NUL) THEN MustEndWithNul
    ELSE IF Contains(StripLast(name), <<NUL>>) THEN MustNotContainNul
    ELSE Passed

\* if result == null_mut() { None } else { Some(read(result as T)) }
sym_opt_result(result) ==
    IF result = NULL THEN None ELSE Some(result)

\* sym_module searching the library loaded last, whatever the handle is
sym_module_global(t) == IF refs[2] > 0 THEN 2 ELSE op[t].self

\* the module sym_opt hands to the platform: self.as_ptr()
sym_module(t) == op[t].self

\* sym_name reading one buffer that every thread's call writes: the name of
\* whichever call is at its lookup
sym_name_shared(t) ==
    op[CHOOSE u \in Threads : pc[u] = "lookup" /\ op[u].fn \in NameFns].str

\* the name sym_opt hands to the platform: the caller's own buffer
sym_name(t) == op[t].str

\* SymMissing with the terminator left on the name
SymMissingWhole(name) ==
    CustomError("InvalidInput", SymbolLead \o FormatDebug(name) \o MissingTail)

\* the error sym makes of a missing symbol
SymMissing(name) ==
    CustomError("InvalidInput",
                SymbolLead \o FormatDebug(StripLast(name)) \o MissingTail)

\* self.sym_opt(name).ok_or_else(|| ...)
sym_result(name, opt) ==
    IF opt.tag = "Some" THEN Ok(opt.val) ELSE Err(SymMissing(name))

\* has_sym_result with the test inverted: s.is_none()
has_sym_result_negated(opt) == Bool(opt.tag # "Some")

\* s.is_some()
has_sym_result(opt) == Bool(opt.tag = "Some")

\* a thread calls sym::<T>, sym_opt::<T> or has_sym on its Library; the
\* assertions of sym_opt run before anything else
SymCall(t, fn, name, tsize) ==
    /\ pc[t] = "idle"
    /\ h[t] # None
    /\ fn \in NameFns
    /\ fn = "has_sym" => tsize = PtrSize
    /\ LET diag == sym_opt_asserts(tsize, name) IN
           /\ pc' = [pc EXCEPT ![t] = IF diag = Passed THEN "lookup" ELSE "panicked"]
           /\ ret' = [ret EXCEPT ![t] = IF diag = Passed THEN NoRet ELSE Panic(diag)]
    /\ op' = [op EXCEPT ![t] =
                 [fn |-> fn, self |-> h[t].val, str |-> name, ord |-> 0,
                  tsize |-> tsize]]
    /\ plog' = [plog EXCEPT ![t] = <<>>]
    /\ UNCHANGED <<kept, os, target_arch, h, refs, dlerr, lasterr>>

\* the result the called function makes of what sym_opt returned
NameFnResult(fn, name, opt) ==
    IF fn = "sym" THEN sym_result(name, opt)
    ELSE IF fn = "has_sym" THEN has_sym_result(opt)
    ELSE opt

\* the platform lookup of sym_opt and the way back to the caller
SymLookup(t) ==
    /\ pc[t] = "lookup"
    /\ op[t].fn \in NameFns
    /\ LET module == sym_module(t)
           name == sym_name(t)
       IN  \E out \in (IF os = "unix" THEN dlsym(module, name, dlerr[t])
                       ELSE GetProcAddress(module, name, lasterr[t])) :
               /\ ret' = [ret EXCEPT ![t] =
                             NameFnResult(op[t].fn, op[t].str,
                                          sym_opt_result(out.res))]
               /\ plog' = [plog EXCEPT ![t] =
                              Append(@, PCall(IF os = "unix" THEN "dlsym"
                                              ELSE "GetProcAddress",
                                              module, CStr(name), 0, out.res))]
               /\ dlerr' = IF os = "unix" THEN [dlerr EXCEPT ![t] = out.err]
                           ELSE dlerr
               /\ lasterr' = IF os = "unix" THEN lasterr
                             ELSE [lasterr EXCEPT ![t] = out.err]
    /\ pc' = [pc EXCEPT ![t] = "done"]
    /\ UNCHANGED <<kept, os, target_arch, h, refs, op>>

\* ------------------------------------------------------------------------
\* sym_by_ordinal, sym_opt_by_ordinal
\* ------------------------------------------------------------------------

\* the assertion at the head of sym_opt_by_ordinal
sym_opt_by_ordinal_asserts(tsize) ==
    IF tsize # PtrSize THEN NotPointerSized ELSE Passed

\* if func.is_null() { None } else { Some(transmute_copy(&func)) }
sym_opt_by_ordinal_result(func) ==
    IF func = NULL THEN None ELSE Some(func)

\* the error sym_by_ordinal makes of a missing ordinal
OrdinalMissing(ordinal) ==
    CustomError("InvalidInput",
                SymbolAtLead \o Decimal(ordinal) \o MissingTail)

\* self.sym_opt_by_ordinal(ordinal).ok_or_else(|| ...)
sym_by_ordinal_result(ordinal, opt) ==
    IF opt.tag = "Some" THEN Ok(opt.val) ELSE Err(OrdinalMissing(ordinal))

\* a thread calls sym_by_ordinal::<T> or sym_opt_by_ordinal::<T>
OrdCall(t, fn, ordinal, tsize) ==
    /\ pc[t] = "idle"
    /\ h[t] # None
    /\ fn \in OrdFns
    /\ LET diag == sym_opt_by_ordinal_asserts(tsize) IN
           /\ pc' = [pc EXCEPT ![t] = IF diag = Passed THEN "lookup" ELSE "panicked"]
           /\ ret' = [ret EXCEPT ![t] = IF diag = Passed THEN NoRet ELSE Panic(diag)]
    /\ op' = [op EXCEPT ![t] =
                 [fn |-> fn, self |-> h[t].val, str |-> <<>>, ord |-> ordinal,
                  tsize |-> tsize]]
    /\ plog' = [plog EXCEPT ![t] = <<>>]
    /\ UNCHANGED <<kept, os, target_arch, h, refs, dlerr, lasterr>>

OrdFnResult(fn, ordinal, opt) ==
    IF fn = "sym_by_ordinal" THEN sym_by_ordinal_result(ordinal, opt) ELSE opt

\* OrdinalsSupported with the cfg left out: every build asks the platform
OrdinalsAlways == TRUE

\* whether this build resolves ordinals through the platform: cfg(windows)
OrdinalsSupported == os = "windows"

\* the rest of sym_opt_by_ordinal: GetProcAddress under cfg(windows), a null
\* func and no platform call under cfg(unix)
OrdLookup(t) ==
    /\ pc[t] = "lookup"
    /\ op[t].fn \in OrdFns
    /\ IF OrdinalsSupported
       THEN \E out \in GetProcAddressOrdinal(op[t].self, op[t].ord, lasterr[t]) :
               /\ ret' = [ret EXCEPT ![t] =
                             OrdFnResult(op[t].fn, op[t].ord,
                                         sym_opt_by_ordinal_result(out.res))]
               /\ plog' = [plog EXCEPT ![t] =
                              Append(@, PCall("GetProcAddress", op[t].self, <<>>,
                                              op[t].ord, out.res))]
               /\ lasterr' = [lasterr EXCEPT ![t] = out.err]
       ELSE /\ ret' = [ret EXCEPT ![t] =
                          OrdFnResult(op[t].fn, op[t].ord,
                                      sym_opt_by_ordinal_result(NULL))]
            /\ UNCHANGED <<plog, lasterr>>
    /\ pc' = [pc EXCEPT ![t] = "done"]
    /\ UNCHANGED <<kept, os, target_arch, h, refs, op, dlerr>>

\* ------------------------------------------------------------------------
\* close_unsafe_unsound_possible_noop_do_not_use_in_production
\* ------------------------------------------------------------------------

\* match dlclose(..) { 0 => Ok(()), _ => Err(dlerror_string_lossy()) }
close_result_unix(rc, e) ==
    IF rc = 0 THEN Ok(Unit) ELSE Err(CustomError("Other", dlerror_string_lossy(e)))

\* close_result_windows with dlclose's convention: 0 means success
close_result_windows_as_unix(rc, code) ==
    IF rc = 0 THEN Ok(Unit) ELSE Err(OsError(code))

\* match FreeLibrary(..) { 0 => Err(last_os_error()), _ => Ok(()) }
close_result_windows(rc, code) ==
    IF rc = 0 THEN Err(OsError(code)) ELSE Ok(Unit)

\* an unload of module ends what the client holds of it: the addresses it
\* kept are invalidated
Forget(module) ==
    IF kept.set /\ kept.self = module THEN NoKept ELSE kept

\* a thread calls the unload operation on its Library
CloseCall(t) ==
    /\ pc[t] = "idle"
    /\ h[t] # None
    /\ pc' = [pc EXCEPT ![t] = "close"]
    /\ op' = [op EXCEPT ![t] = [NoOp EXCEPT !.fn = "close", !.self = h[t].val]]
    /\ ret' = [ret EXCEPT ![t] = NoRet]
    /\ plog' = [plog EXCEPT ![t] = <<>>]
    /\ UNCHANGED <<kept, os, target_arch, h, refs, dlerr, lasterr>>

\* the body of the unload operation under cfg(unix)
CloseUnix(t) ==
    /\ pc[t] = "close"
    /\ os = "unix"
    /\ \E out \in dlclose(op[t].self, dlerr[t]) :
           LET read == dlerror(out.err)
               closed == PCall("dlclose", op[t].self, <<>>, 0, out.rc)
               fetched == PCall("dlerror", NULL, read.res.str, 0, DlPtr(read.res))
           IN  /\ ret' = [ret EXCEPT ![t] = close_result_unix(out.rc, read.res)]
               /\ plog' = [plog EXCEPT ![t] =
                              IF out.rc = 0 THEN <<closed>> ELSE <<closed, fetched>>]
               /\ dlerr' = [dlerr EXCEPT ![t] =
                               IF out.rc = 0 THEN out.err ELSE read.err]
               /\ refs' = [refs EXCEPT ![op[t].self] = @ - out.drop]
    /\ kept' = Forget(op[t].self)
    /\ pc' = [pc EXCEPT ![t] = "done"]
    /\ UNCHANGED <<os, target_arch, h, op, lasterr>>

\* the body of the unload operation under cfg(windows)
CloseWindows(t) ==
    /\ pc[t] = "close"
    /\ os = "windows"
    /\ \E out \in FreeLibrary(op[t].self, lasterr[t]) :
           LET closed == PCall("FreeLibrary", op[t].self, <<>>, 0, out.rc)
               read == PCall("GetLastError", NULL, <<>>, out.err, NULL)
           IN  /\ ret' = [ret EXCEPT ![t] = close_result_windows(out.rc, out.err)]
               /\ plog' = [plog EXCEPT ![t] =
                              IF out.rc = 0 THEN <<closed, read>> ELSE <<closed>>]
               /\ lasterr' = [lasterr EXCEPT ![t] = out.err]
               /\ refs' = [refs EXCEPT ![op[t].self] = @ - out.drop]
    /\ kept' = Forget(op[t].self)
    /\ pc' = [pc EXCEPT ![t] = "done"]
    /\ UNCHANGED <<os, target_arch, h, op, dlerr>>

\* ------------------------------------------------------------------------
\* Specifications
\* ------------------------------------------------------------------------

\* a single-threaded client that uses the whole interface
Next ==
    \/ \E path \in Paths : LoadCall(Main, path)
    \/ LoadUnix(Main)
    \/ LoadWindows(Main)
    \/ \E fn \in NameFns, name \in Names, tsize \in TSizes :
           SymCall(Main, fn, name, tsize)
    \/ SymLookup(Main)
    \/ \E fn \in OrdFns, ordinal \in Ordinals, tsize \in TSizes :
           OrdCall(Main, fn, ordinal, tsize)
    \/ OrdLookup(Main)
    \/ CloseCall(Main)
    \/ CloseUnix(Main)
    \/ CloseWindows(Main)
    \/ Return(Main)

Spec == Init /\ [][Next]_vars

\* the names and paths the threads of the concurrent client pass
ValidNames ==
    {n \in Names : ends_with(n, NUL) /\ ~Contains(StripLast(n), <<NUL>>)}

ConcNames == ValidNames \cup {<<"x">>}

ConcPaths == {p \in Paths : LibOf(CStr(Filename(p))) # NULL}

\* threads that load, share copies of their Library values and resolve
\* names concurrently; nothing is ever unloaded
NextConc ==
    \E t \in Threads :
        \/ \E path \in ConcPaths : LoadCall(t, path)
        \/ LoadUnix(t)
        \/ LoadWindows(t)
        \/ \E u \in Threads : Copy(t, u)
        \/ \E fn \in NameFns, name \in ConcNames : SymCall(t, fn, name, PtrSize)
        \/ SymLookup(t)
        \/ Return(t)

InitConc == Init /\ target_arch = "x86_64"

SpecConc == InitConc /\ [][NextConc]_vars

\* the names that client passes: the short ones
LifeNames == {n \in ConcNames : Len(n) <= 2}

\* a client that loads, keeps copies of its Library values in a second
\* variable, resolves names, holds on to results, and unloads
NextLife ==
    \/ \E path \in ConcPaths : LoadCall(Main, path)
    \/ LoadUnix(Main)
    \/ LoadWindows(Main)
    \/ \E t \in Threads, u \in Threads : Copy(t, u)
    \/ \E fn \in NameFns, name \in LifeNames : SymCall(Main, fn, name, PtrSize)
    \/ SymLookup(Main)
    \/ CloseCall(Main)
    \/ CloseUnix(Main)
    \/ CloseWindows(Main)
    \/ Keep(Main)
    \/ Return(Main)

SpecLife == InitConc /\ [][NextLife]_vars

\* ------------------------------------------------------------------------
\* Properties
\* ------------------------------------------------------------------------

\* thread t has run the body of a call to one of fns and not yet returned
Finished(t, fns) == pc[t] = "done" /\ op[t].fn \in fns

\* the entry of the platform's load call in the log of a finished load
OpenCall(t) == IF os = "unix" THEN plog[t][2] ELSE plog[t][1]

\* the entry of the error query that follows a failed platform call
ErrorQuery(t) == plog[t][Len(plog[t])]

\* a finished load whose platform call returned a null handle
LoadFailed(t) == Finished(t, {"load"}) /\ OpenCall(t).res = NULL

\* C1, as stated: whenever the platform loader returns a null handle, load
\* returns Err and the displayed message contains the requested path, on
\* Unix and on Windows.
C1_AnyFailureNamesPath ==
    \A t \in Threads :
        LoadFailed(t) =>
            /\ ret[t].tag = "Err"
            /\ Contains(Display(ret[t].val), display(op[t].str))

\* C1, amended: whenever the platform loader returns a null handle, load
\* returns Err. On Windows the message contains the path when the OS code is
\* module-not-found or bad-executable-format. On Unix the message is the
\* lossy text of what dlerror() returned for that dlopen (empty for a null
\* pointer), so it contains the path whenever the loader's string embeds it.
C1_FailureMessage ==
    \A t \in Threads :
        LoadFailed(t) =>
            /\ ret[t].tag = "Err"
            /\ (os = "windows"
                    /\ ErrorQuery(t).num \in {ERROR_MOD_NOT_FOUND, ERROR_BAD_EXE_FORMAT})
                => Contains(Display(ret[t].val), display(op[t].str))
            /\ os = "unix" =>
                /\ ErrorQuery(t).res = NULL => Display(ret[t].val) = <<>>
                /\ ErrorQuery(t).res # NULL =>
                       Display(ret[t].val) = to_string_lossy(ErrorQuery(t).str)
                /\ (ErrorQuery(t).res # NULL
                        /\ Contains(ErrorQuery(t).str, op[t].str))
                    => Contains(Display(ret[t].val), display(op[t].str))

\* a load of a path with an invalid byte has failed on Unix with the loader's
\* message naming the file
C1_Witness ==
    \E t \in Threads :
        /\ LoadFailed(t)
        /\ os = "unix"
        /\ op[t].str = <<"z", BAD>>
        /\ ErrorQuery(t).res # NULL
        /\ Contains(ErrorQuery(t).str, op[t].str)
        /\ ret[t].tag = "Err"

\* C3: load returns Ok(handle) exactly when the platform loader returned a
\* non-null address, and the handle wraps that address; a null result is
\* always Err, also when the platform reports no error; no Library that load
\* produced wraps a null address.
C3_OkIffNonNull ==
    \A t \in Threads :
        /\ Finished(t, {"load"}) =>
            /\ ret[t].tag = "Ok" <=> OpenCall(t).res # NULL
            /\ ret[t].tag = "Ok" => ret[t].val = OpenCall(t).res
            /\ OpenCall(t).res = NULL => ret[t].tag = "Err"
        /\ h[t] # None => h[t].val # NULL
        /\ op[t].fn \in NameFns \cup OrdFns \cup {"close"} => op[t].self # NULL

\* a load has failed although the platform's error facility reports nothing:
\* a null dlerror() on Unix, code 0 on Windows
C3_Witness ==
    \E t \in Threads :
        /\ LoadFailed(t)
        /\ \/ os = "unix" /\ ErrorQuery(t).res = NULL
           \/ os = "windows" /\ ErrorQuery(t).num = 0
        /\ ret[t].tag = "Err"

\* the call of thread t breaks a precondition of the function it calls
PreconditionViolated(t) ==
    \/ op[t].tsize # PtrSize
    \/ /\ op[t].fn \in NameFns
       /\ \/ op[t].str = <<>>
          \/ op[t].str[Len(op[t].str)] # NUL
          \/ \E i \in 1..(Len(op[t].str) - 1) : op[t].str[i] = NUL

\* C4: in sym, sym_opt, has_sym, sym_by_ordinal and sym_opt_by_ordinal a
\* violated precondition (a result type that is not pointer-sized; a name
\* that does not end in '\0', the empty name included, or that holds an
\* interior '\0') ends the call in a panic with a diagnostic, never in a
\* result, and the call has issued no platform lookup.
C4_PanicBeforeLookup ==
    \A t \in Threads :
        (op[t].fn \in NameFns \cup OrdFns /\ PreconditionViolated(t)) =>
            /\ pc[t] = "panicked"
            /\ ret[t].tag = "Panic"
            /\ ret[t].val \in {NotPointerSized, MustEndWithNul, MustNotContainNul}
            /\ plog[t] = <<>>

\* sym has panicked on a pointer-sized request whose name ends in '\0' and
\* holds another '\0' before it
C4_Witness ==
    \E t \in Threads :
        /\ pc[t] = "panicked"
        /\ op[t].fn = "sym"
        /\ op[t].tsize = PtrSize
        /\ op[t].str = <<"x", NUL, NUL>>
        /\ ret[t] = Panic(MustNotContainNul)

\* what has_sym owes in every state
HasSymState ==
    \A t \in Threads :
        op[t].fn = "has_sym" =>
            /\ pc[t] = "panicked" <=> sym_opt_asserts(PtrSize, op[t].str) # Passed
            /\ pc[t] = "panicked" => plog[t] = <<>>
            /\ pc[t] = "done" =>
                /\ Len(plog[t]) = 1
                /\ plog[t][1].api \in {"dlsym", "GetProcAddress"}
                /\ plog[t][1].h = op[t].self
                /\ plog[t][1].str = CStr(op[t].str)
                /\ ret[t].tag = "Bool"
                /\ ret[t].val = (sym_opt_result(plog[t][1].res).tag = "Some")
                /\ refs[op[t].self] > 0 =>
                       ret[t].val = (Exports(op[t].self, CStr(op[t].str)) # NULL)

\* the steps of a has_sym call: its start, its lookup and its return
HasSymStep ==
    \E t \in Threads : op[t].fn = "has_sym" \/ op'[t].fn = "has_sym"

\* C5: has_sym(name) returns true exactly when sym_opt::<pointer>(name) on
\* the same handle returns Some, and panics exactly when sym_opt panics; a
\* call that returns has issued exactly one platform lookup (one that panics,
\* none); no step of the call changes a Library value, a copy of it or the
\* set of loaded libraries.
C5_HasSym ==
    /\ []HasSymState
    /\ [][HasSymStep => UNCHANGED <<h, refs>>]_vars

\* has_sym has returned true for a symbol the library exports
C5_Witness ==
    \E t \in Threads :
        /\ Finished(t, {"has_sym"})
        /\ ret[t] = Bool(TRUE)
        /\ Exports(op[t].self, CStr(op[t].str)) # NULL
        /\ h[t] = Some(op[t].self)
        /\ refs[op[t].self] > 0

\* the decimal text of each ordinal the client passes
OrdinalText(ordinal) ==
    IF ordinal = 0 THEN <<"0">>
    ELSE IF ordinal = 1 THEN <<"1">>
    ELSE IF ordinal = 10 THEN <<"1", "0">>
    ELSE <<"6", "5", "5", "3", "5">>

\* C6: on Unix, for every handle and ordinal with a pointer-sized result
\* type, sym_opt_by_ordinal returns None and sym_by_ordinal returns an
\* InvalidInput error whose message contains the ordinal in decimal; neither
\* issues a platform call.
C6_UnixOrdinals ==
    \A t \in Threads :
        (os = "unix" /\ op[t].fn \in OrdFns /\ op[t].tsize = PtrSize) =>
            /\ pc[t] \in {"lookup", "done"}
            /\ plog[t] = <<>>
            /\ (pc[t] = "done" /\ op[t].fn = "sym_opt_by_ordinal") => ret[t] = None
            /\ (pc[t] = "done" /\ op[t].fn = "sym_by_ordinal") =>
                /\ ret[t].tag = "Err"
                /\ ret[t].val.kind = "InvalidInput"
                /\ Contains(Display(ret[t].val), OrdinalText(op[t].ord))

\* sym_by_ordinal has returned on Unix for the largest ordinal
C6_Witness ==
    \E t \in Threads :
        /\ os = "unix"
        /\ Finished(t, {"sym_by_ordinal"})
        /\ op[t].ord = U16Max
        /\ ret[t].tag = "Err"

\* the platform unload calls in a log
UnloadCalls(log) ==
    {i \in 1..Len(log) : log[i].api \in {"dlclose", "FreeLibrary"}}

\* C7: the unload operation issues exactly one platform unload call, on the
\* handle's address. Unix: 0 gives Ok(()), any other value gives Err with the
\* text dlerror() returns for that call. Windows: 0 gives Err with the last
\* OS error, any other value gives Ok(()). An already unloaded handle that
\* the platform rejects gives Err with the platform's error text.
C7_UnloadMapping ==
    \A t \in Threads :
        Finished(t, {"close"}) =>
            /\ Cardinality(UnloadCalls(plog[t])) = 1
            /\ plog[t][1].api = (IF os = "unix" THEN "dlclose" ELSE "FreeLibrary")
            /\ plog[t][1].h = op[t].self
            /\ (os = "unix" /\ plog[t][1].res = 0) => ret[t] = Ok(Unit)
            /\ (os = "unix" /\ plog[t][1].res # 0) =>
                /\ ret[t].tag = "Err"
                /\ plog[t][2].api = "dlerror"
                /\ Display(ret[t].val) = to_string_lossy(plog[t][2].str)
                /\ Display(ret[t].val) = NotOpenMsg
            /\ (os = "windows" /\ plog[t][1].res = 0) =>
                /\ plog[t][2].api = "GetLastError"
                /\ ret[t] = Err(OsError(plog[t][2].num))
                /\ ret[t].val.code \in {ERROR_INVALID_HANDLE, ERROR_MOD_NOT_FOUND}
            /\ (os = "windows" /\ plog[t][1].res # 0) => ret[t] = Ok(Unit)

\* the platform has rejected the unload of a handle whose library was
\* already unloaded, on Windows
C7_Witness ==
    \E t \in Threads :
        /\ Finished(t, {"close"})
        /\ os = "windows"
        /\ refs[op[t].self] = 0
        /\ plog[t][1].res = 0
        /\ ret[t] = Err(OsError(ERROR_INVALID_HANDLE))

\* C9: on Windows, when LoadLibraryW returns null: with OS code
\* module-not-found the error has kind NotFound and its message contains the
\* path; with any code but module-not-found and bad-executable-format the
\* error is the OS error itself, its raw code and its message unchanged.
C9_WindowsLoadErrors ==
    \A t \in Threads :
        (LoadFailed(t) /\ os = "windows") =>
            /\ ErrorQuery(t).api = "GetLastError"
            /\ ErrorQuery(t).num = ERROR_MOD_NOT_FOUND =>
                /\ ret[t].tag = "Err"
                /\ ret[t].val.kind = "NotFound"
                /\ Contains(Display(ret[t].val), display(op[t].str))
            /\ ErrorQuery(t).num \notin {ERROR_MOD_NOT_FOUND, ERROR_BAD_EXE_FORMAT} =>
                /\ ret[t] = Err(OsError(ErrorQuery(t).num))
                /\ ret[t].val.code = ErrorQuery(t).num
                /\ Display(ret[t].val) =
                       SysMessage(ErrorQuery(t).num) \o OsErrorLead
                           \o Decimal(ErrorQuery(t).num) \o <<")">>

\* a load has failed on Windows with access-denied
C9_Witness ==
    \E t \in Threads :
        /\ LoadFailed(t)
        /\ os = "windows"
        /\ ErrorQuery(t).num = 5
        /\ op[t].str = <<BAD, "z">>
        /\ ret[t].tag = "Err"

\* C10: on Windows, when LoadLibraryW fails with bad-executable-format, the
\* message names the path and states the process bit-width, which is the
\* target's pointer width, and the other width for the DLL.
C10_BitWidthIsPointerWidth ==
    \A t \in Threads :
        (LoadFailed(t) /\ os = "windows"
             /\ ErrorQuery(t).num = ERROR_BAD_EXE_FORMAT) =>
            LET this == Decimal(PointerWidth(target_arch))
                that == Decimal(IF PointerWidth(target_arch) = 64 THEN 32 ELSE 64)
            IN  /\ ret[t].tag = "Err"
                /\ Contains(Display(ret[t].val), display(op[t].str))
                /\ Contains(Display(ret[t].val), BadExeMid \o this \o BadExeTail)
                /\ Contains(Display(ret[t].val), that \o BadExeMid)

\* a load has failed with bad-executable-format on a Windows build for
\* aarch64, whose pointers are 64 bits wide, and the message calls the
\* process a 32-bit one
C10_Witness ==
    \E t \in Threads :
        /\ LoadFailed(t)
        /\ os = "windows"
        /\ target_arch = "aarch64"
        /\ PointerWidth(target_arch) = 64
        /\ ErrorQuery(t).num = ERROR_BAD_EXE_FORMAT
        /\ Contains(Display(ret[t].val),
                    <<"6", "4">> \o BadExeMid \o <<"3", "2">> \o BadExeTail)

\* thread u has put a request for a name to the library behind module
Requested(u, module) ==
    /\ op[u].fn \in NameFns
    /\ pc[u] \in {"lookup", "done"}
    /\ op[u].self = module

\* a finished sym or sym_opt whose platform lookup found nothing
NotFound(t) == Finished(t, {"sym", "sym_opt"}) /\ plog[t][1].res = NULL

\* text that <str as Debug>::fmt writes as it is
PlainText(text) == EscapeDebug(text) = text

SoloOpt(module, name) ==
    IF Exports(module, CStr(name)) = NULL THEN None
    ELSE Some(Exports(module, CStr(name)))

\* C8: when threads call sym, sym_opt and has_sym concurrently on copies of
\* a handle and nothing is unloaded, every call returns what it would return
\* run alone: a result fixed by the handle's address, the name and the
\* library's export table, whatever the other threads look up and whatever
\* their error slots hold.
C8_ConcurrentLookups ==
    \A t \in Threads :
        Finished(t, NameFns) =>
            /\ refs[op[t].self] > 0
            /\ ret[t] = NameFnResult(op[t].fn, op[t].str,
                                     SoloOpt(op[t].self, op[t].str))
            /\ Len(plog[t]) = 1
            /\ plog[t][1].h = op[t].self
            /\ plog[t][1].str = CStr(op[t].str)

\* two threads are in calls on copies of one handle: one has found its
\* symbol while the other, whose lookup of another name failed, has not yet
\* returned and holds the failure in its error slot
C8_Witness ==
    \E t \in Threads, u \in Threads :
        /\ t # u
        /\ Finished(t, {"sym"})
        /\ Finished(u, {"sym_opt"})
        /\ h[t] = h[u]
        /\ op[t].self = op[u].self
        /\ op[t].str # op[u].str
        /\ ret[t].tag = "Ok"
        /\ ret[u] = None
        /\ os = "unix"
        /\ ~dlerr[u].null

\* C11: for every loaded handle and every valid name, resolving the name
\* twice from the handle with sym or sym_opt, with no unload in between,
\* gives results that compare equal: the same address both times, or not
\* found both times.
C11_ResolveTwice ==
    \A t \in Threads :
        (/\ Finished(t, {"sym", "sym_opt"})
         /\ refs[op[t].self] > 0
         /\ kept.set
         /\ kept.loaded
         /\ kept.self = op[t].self
         /\ kept.str = op[t].str)
            => Address(ret[t]) = kept.addr

\* a name the library exports has been resolved a second time, by sym after
\* sym_opt or the other way round, from a handle that was loaded both times
\* and through a copy since
C11_Witness ==
    \E t \in Threads :
        /\ Finished(t, {"sym", "sym_opt"})
        /\ refs[op[t].self] > 0
        /\ kept.set
        /\ kept.loaded
        /\ kept.self = op[t].self
        /\ kept.str = op[t].str
        /\ kept.addr # NULL
        /\ Address(ret[t]) = kept.addr
        /\ refs[1] > 0
        /\ refs[2] > 0

\* C12: on Unix, whatever earlier operations of the thread left in its
\* dlerror() slot, a failing load has read and cleared the slot before it
\* called dlopen, and its message is the lossy text of what that dlopen
\* recorded (nothing, when it recorded nothing): never the string an
\* earlier operation left.
C12_LoadErrorIsItsOwn ==
    \A t \in Threads :
        (LoadFailed(t) /\ os = "unix") =>
            /\ Len(plog[t]) = 3
            /\ plog[t][1].api = "dlerror"
            /\ plog[t][2].api = "dlopen"
            /\ plog[t][3].api = "dlerror"
            /\ Display(ret[t].val) \in
                   {dlerror_string_lossy(e) :
                        e \in DlopenErrors(CStr(plog[t][2].str), DlNull)}
            /\ plog[t][1].res # NULL =>
                   Display(ret[t].val) # to_string_lossy(plog[t][1].str)

\* a load has failed on Unix after a failed lookup left its string in the
\* slot, and its dlopen recorded no error
C12_Witness ==
    \E t \in Threads :
        /\ LoadFailed(t)
        /\ os = "unix"
        /\ plog[t][1].res # NULL
        /\ plog[t][1].str = UndefinedSymbolMsg
        /\ plog[t][3].res = NULL
        /\ Display(ret[t].val) = <<>>

\* C13: on Unix, every load calls dlopen with the bytes of the path followed
\* by a NUL and with the flag that resolves immediately, RTLD_NOW, not the
\* lazy one.
C13_DlopenResolvesNow ==
    \A t \in Threads :
        (Finished(t, {"load"}) /\ os = "unix") =>
            /\ OpenCall(t).api = "dlopen"
            /\ OpenCall(t).str = op[t].str \o <<NUL>>
            /\ OpenCall(t).num = RTLD_NOW
            /\ OpenCall(t).num # RTLD_LAZY

\* a load on Unix has called dlopen with the terminated bytes of a path that
\* holds an invalid byte, and with RTLD_LAZY
C13_Witness ==
    \E t \in Threads :
        /\ Finished(t, {"load"})
        /\ os = "unix"
        /\ op[t].str = <<"z", BAD>>
        /\ OpenCall(t).api = "dlopen"
        /\ OpenCall(t).str = <<"z", BAD, NUL>>
        /\ OpenCall(t).num = RTLD_LAZY

\* what every call on a Library owes, loaded or not: the wrapper takes the
\* call, panics only on a broken precondition, passes the value's address to
\* the platform and makes its result of the platform's answer alone
AnyHandleState ==
    \A t \in Threads :
        /\ (t = Main /\ pc[t] = "idle" /\ h[t] # None) =>
               /\ ENABLED CloseCall(t)
               /\ ENABLED SymCall(t, "sym", <<"x", NUL>>, PtrSize)
               /\ ENABLED SymCall(t, "sym_opt", <<"x", NUL>>, PtrSize)
               /\ ENABLED SymCall(t, "has_sym", <<"x", NUL>>, PtrSize)
        /\ op[t].fn \in NameFns \cup {"close"} => h[t] = Some(op[t].self)
        /\ op[t].fn \in NameFns =>
               pc[t] = "panicked" <=> sym_opt_asserts(op[t].tsize, op[t].str) # Passed
        /\ op[t].fn = "close" => pc[t] # "panicked"
        /\ Finished(t, NameFns) =>
               /\ Len(plog[t]) = 1
               /\ plog[t][1].h = op[t].self
               /\ ret[t] = NameFnResult(op[t].fn, op[t].str,
                                        sym_opt_result(plog[t][1].res))
        /\ Finished(t, {"close"}) =>
               /\ plog[t][1].h = op[t].self
               /\ ret[t].tag = "Ok" <=>
                      (IF os = "unix" THEN plog[t][1].res = 0
                       ELSE plog[t][1].res # 0)

\* the steps of an unload call: its start, its platform call and its return
UnloadStep ==
    \E t \in Threads :
        /\ op[t].fn = "close" \/ op'[t].fn = "close"
        /\ pc'[t] # pc[t]

\* C14: the wrapper tracks no loaded or unloaded state. No step of an unload
\* call, successful or failed, changes a Library value or a copy of it; and
\* after it every operation on any copy (sym, sym_opt, has_sym, another
\* unload) is taken as before and passed to the platform with the same
\* address, its result made of the platform's answer alone.
C14_NoLifecycleState ==
    /\ []AnyHandleState
    /\ [][UnloadStep => h' = h]_vars

\* has_sym has run on a Library whose library was unloaded, with a copy of
\* the value still held elsewhere, and the platform was asked with the
\* value's address
C14_Witness ==
    \E t \in Threads, u \in Threads :
        /\ t # u
        /\ Finished(t, {"has_sym"})
        /\ refs[op[t].self] = 0
        /\ h[t] = Some(op[t].self)
        /\ h[u] = h[t]
        /\ plog[t][1].h = op[t].self

====
